---- MODULE Spec2Model ----
(***************************************************************************)
(* A state-machine model of the mesh Model (src/unnamed/part_000) and of   *)
(* the MeshCamera (src/src/gameobjects/mesh/MeshCamera.js).                *)
(*                                                                         *)
(* Numbers are modelled on the integer grid.  JavaScript arrays are        *)
(* sequences: the JS index i is the sequence index i + 1.  Objects that    *)
(* are held by reference (Vertex, Face, AnimationState) live in `heap`     *)
(* and are referred to by their index in it.                               *)
(***************************************************************************)
EXTENDS Integers, Sequences, FiniteSets, TLC

VARIABLES model, heap, camera, lastOp, calls

vars == <<model, heap, camera, lastOp, calls>>

----------------------------------------------------------------------------
(* Bounds of the model.                                                    *)

\* number of API calls made on the Model in one behaviour
MaxCalls == 3
\* number of API calls made on the MeshCamera in one behaviour
MaxCameraCalls == 3
\* Vertex objects ever created
MaxVertexObjects == 6
\* Face objects ever created
MaxFaceObjects == 4
\* longest coordinate / uv array handed to addVertices
MaxCoordsLength == 8

----------------------------------------------------------------------------
(* JavaScript values.                                                      *)

\* `undefined` where a number or an object reference is expected
Undefined == -1
\* `null` where an object reference held in a Face is expected
NullRef == -2
\* `null` in a field that holds a vector, a matrix or an object
Null == <<>>

\* arr[i] for a JS index i: undefined outside the array
At(arr, i) == IF 0 <= i /\ i < Len(arr) THEN arr[i + 1] ELSE Undefined

\* an argument that is either a scalar or an array (Array.isArray decides)
Scalar(v) == [isArray |-> FALSE, scalar |-> v, array |-> <<>>]
Array(a) == [isArray |-> TRUE, scalar |-> Undefined, array |-> a]

----------------------------------------------------------------------------
(* Matrix4: a sequence of 16 numbers, column-major as in Matrix4.val.      *)
(* An inverted matrix is kept exactly, as <<numerators, denominator>>.     *)

Identity == <<1, 0, 0, 0,  0, 1, 0, 0,  0, 0, 1, 0,  0, 0, 0, 1>>

\* Matrix4.fromRotationTranslation(q, v)
fromRotationTranslation(q, v) ==
    LET x == q[1]  y == q[2]  z == q[3]  w == q[4]
        x2 == x + x  y2 == y + y  z2 == z + z
        xx == x * x2  xy == x * y2  xz == x * z2
        yy == y * y2  yz == y * z2  zz == z * z2
        wx == w * x2  wy == w * y2  wz == w * z2
    IN  << 1 - (yy + zz), xy + wz, xz - wy, 0,
           xy - wz, 1 - (xx + zz), yz + wx, 0,
           xz + wy, yz - wx, 1 - (xx + yy), 0,
           v[1], v[2], v[3], 1 >>

\* Matrix4.scale(v): the first three columns times v.x, v.y, v.z
scaleMatrix(m, v) ==
    [i \in 1..16 |-> IF i <= 4 THEN m[i] * v[1]
                     ELSE IF i <= 8 THEN m[i] * v[2]
                     ELSE IF i <= 12 THEN m[i] * v[3]
                     ELSE m[i]]

\* Matrix4.transpose()
transpose(m) ==
    [i \in 1..16 |-> m[4 * ((i - 1) % 4) + ((i - 1) \div 4) + 1]]

\* the twelve 2x2 minors Matrix4.invert computes (b00 .. b11)
Minors(m) ==
    << m[1] * m[6] - m[2] * m[5],
       m[1] * m[7] - m[3] * m[5],
       m[1] * m[8] - m[4] * m[5],
       m[2] * m[7] - m[3] * m[6],
       m[2] * m[8] - m[4] * m[6],
       m[3] * m[8] - m[4] * m[7],
       m[9] * m[14] - m[10] * m[13],
       m[9] * m[15] - m[11] * m[13],
       m[9] * m[16] - m[12] * m[13],
       m[10] * m[15] - m[11] * m[14],
       m[10] * m[16] - m[12] * m[14],
       m[11] * m[16] - m[12] * m[15] >>

determinant(m) ==
    LET b == Minors(m)
    IN  b[1] * b[12] - b[2] * b[11] + b[3] * b[10]
        + b[4] * b[9] - b[5] * b[8] + b[6] * b[7]

\* the numerators of the inverse (the inverse is Adjugate / determinant)
Adjugate(m) ==
    LET b == Minors(m)
    IN  << m[6] * b[12] - m[7] * b[11] + m[8] * b[10],
           m[3] * b[11] - m[2] * b[12] - m[4] * b[10],
           m[14] * b[6] - m[15] * b[5] + m[16] * b[4],
           m[11] * b[5] - m[10] * b[6] - m[12] * b[4],
           m[7] * b[9] - m[5] * b[12] - m[8] * b[8],
           m[1] * b[12] - m[3] * b[9] + m[4] * b[8],
           m[15] * b[3] - m[13] * b[6] - m[16] * b[2],
           m[9] * b[6] - m[11] * b[3] + m[12] * b[2],
           m[5] * b[11] - m[6] * b[9] + m[8] * b[7],
           m[2] * b[9] - m[1] * b[11] - m[4] * b[7],
           m[13] * b[5] - m[14] * b[3] + m[16] * b[1],
           m[10] * b[3] - m[9] * b[5] - m[12] * b[1],
           m[6] * b[8] - m[5] * b[10] - m[7] * b[7],
           m[1] * b[10] - m[2] * b[8] + m[3] * b[7],
           m[14] * b[2] - m[13] * b[4] - m[15] * b[1],
           m[9] * b[4] - m[10] * b[2] + m[11] * b[1] >>

\* Matrix4.invert() of an integer matrix: unchanged when the determinant is 0
invert(m) ==
    IF determinant(m) = 0 THEN <<m, 1>> ELSE <<Adjugate(m), determinant(m)>>

\* normalMatrix.copy(transformMatrix); .invert(); .transpose()
inverseTranspose(m) == <<transpose(invert(m)[1]), invert(m)[2]>>

----------------------------------------------------------------------------
(* The Model.                                                              *)

\* Math.PI on the integer grid
Pi == 3

\* math/angle/Wrap: the angle wrapped into [-PI, PI)
WrapAngle(angle) == (0 - Pi) + ((angle + Pi) % (2 * Pi))

\* new Quaternion(): the unit quaternion
QuaternionDefault == <<0, 0, 0, 1>>

\* arguments (x, y, z) of the constructor; undefined defaults to 0
ModelArgs == { <<Undefined, Undefined, Undefined>>, <<1, 2, 3>> }

\* values assigned to x, y, z / rotationX, rotationY, rotationZ / scaleX, scaleY, scaleZ
PositionValues == {4}
RotationValues == {4}
ScaleValues == {0, 2}

\* the Model constructor
NewModel(x, y, z) ==
    LET px == IF x = Undefined THEN 0 ELSE x
        py == IF y = Undefined THEN 0 ELSE y
        pz == IF z = Undefined THEN 0 ELSE z
    IN  [ mesh |-> <<"mesh">>,
          scene |-> <<"scene">>,
          anims |-> <<"anims">>,
          faces |-> <<>>,
          vertices |-> <<>>,
          position |-> <<px, py, pz>>,
          scale |-> <<1, 1, 1>>,
          rotation |-> QuaternionDefault,
          dirtyCache |-> <<px, py, pz, 0, 0, 0, 0, 1, 1, 1, 0>>,
          normalMatrix |-> <<Identity, 1>>,
          transformMatrix |-> Identity ]

\* the objects the constructor creates: no Vertex, no Face, one AnimationState
NewHeap == [ vertices |-> <<>>, faces |-> <<>>,
             anims |-> [ticks |-> 0, destroyed |-> FALSE] ]

getFaceCount(m) == Len(m.faces)

getVertexCount(m) == Len(m.vertices)

\* the 11 values isDirty reads, in the order of dirtyCache
TrackedValues(m) == m.position \o m.rotation \o m.scale \o <<getFaceCount(m)>>


\* what a method call yields: the Model, the objects, and the returned value
\* ("TypeError" and "Error" are thrown, everything else is returned)
Result(m, h, ret) == [model |-> m, heap |-> h, ret |-> ret]

\* isDirty as a pure predicate: the snapshot is not stored
isDirtyNoStore(m) ==
    [ ret |-> \E i \in 1..11 : m.dirtyCache[i] # TrackedValues(m)[i],
      model |-> m ]

\* Model.isDirty (the Model is not destroyed): compares the 11 tracked values
\* with the snapshot, then stores them
isDirty(m) ==
    [ ret |-> \E i \in 1..11 : m.dirtyCache[i] # TrackedValues(m)[i],
      model |-> [m EXCEPT !.dirtyCache = TrackedValues(m)] ]

\* the matrix preUpdate builds: fromRotationTranslation, then scale
TransformOf(m) ==
    scaleMatrix(fromRotationTranslation(m.rotation, m.position), m.scale)

\* preUpdate without the bail-out: the matrices are rebuilt on every call
preUpdateAlways(m, h) ==
    IF m.anims = Null
    THEN Result(m, h, "TypeError")
    ELSE Result([isDirty(m).model EXCEPT
                     !.transformMatrix = TransformOf(m),
                     !.normalMatrix = inverseTranspose(TransformOf(m))],
                [h EXCEPT !.anims.ticks = @ + 1], "undefined")

\* Model.preUpdate
preUpdate(m, h) ==
    IF m.anims = Null
    THEN Result(m, h, "TypeError")
    ELSE LET h1 == [h EXCEPT !.anims.ticks = @ + 1]
             d == isDirty(m)
         IN  IF d.ret
             THEN Result([d.model EXCEPT
                              !.transformMatrix = TransformOf(m),
                              !.normalMatrix = inverseTranspose(TransformOf(m))],
                         h1, "undefined")
             ELSE Result(d.model, h1, "undefined")

\* Face.destroy: the three vertex references are released
DestroyedFace == [vertex1 |-> NullRef, vertex2 |-> NullRef, vertex3 |-> NullRef]

\* clearVertices that only resets the two arrays
clearVerticesKeepFaces(m, h) ==
    Result([m EXCEPT !.faces = <<>>, !.vertices = <<>>], h, "this")

\* Model.clearVertices
clearVertices(m, h) ==
    Result([m EXCEPT !.faces = <<>>, !.vertices = <<>>],
           [h EXCEPT !.faces =
               [f \in 1..Len(h.faces) |->
                   IF \E k \in 1..Len(m.faces) : m.faces[k] = f
                   THEN DestroyedFace ELSE h.faces[f]]],
           "this")

\* new Vertex(x, y, z, u, v, color, alpha): color defaults to 0xffffff, alpha to 1
Vertex(x, y, z, u, v, color, alpha) ==
    [ x |-> x, y |-> y, z |-> z, u |-> u, v |-> v,
      color |-> IF color = Undefined THEN 16777215 ELSE color,
      alpha |-> IF alpha = Undefined THEN 1 ELSE alpha ]

\* new Face(vertex1, vertex2, vertex3)
Face(vertex1, vertex2, vertex3) ==
    [vertex1 |-> vertex1, vertex2 |-> vertex2, vertex3 |-> vertex3]

\* Model.addVertex
addVertex(m, h, x, y, z, u, v, color, alpha) ==
    Result([m EXCEPT !.vertices = Append(@, Len(h.vertices) + 1)],
           [h EXCEPT !.vertices = Append(@, Vertex(x, y, z, u, v, color, alpha))],
           "Vertex")

\* Model.addFace
addFace(m, h, vertex1, vertex2, vertex3) ==
    Result([m EXCEPT !.faces = Append(@, Len(h.faces) + 1)],
           [h EXCEPT !.faces = Append(@, Face(vertex1, vertex2, vertex3))],
           "Face")

\* the indexed loop reading colors and alphas at the index, not at the place i
IndexedVerticesByIndex(vertices, uvs, indicies, colors, alphas) ==
    [ n \in 1..Len(indicies) |->
        LET index == indicies[n] * 2
        IN  Vertex(At(vertices, index), At(vertices, index + 1), 0,
                   At(uvs, index), At(uvs, index + 1),
                   IF colors.isArray THEN At(colors.array, indicies[n])
                                     ELSE colors.scalar,
                   IF alphas.isArray THEN At(alphas.array, indicies[n])
                                     ELSE alphas.scalar) ]

\* addVertices, the indexed loop: one Vertex per entry of indicies
IndexedVertices(vertices, uvs, indicies, colors, alphas) ==
    [ n \in 1..Len(indicies) |->
        LET i == n - 1
            index == indicies[n] * 2
        IN  Vertex(At(vertices, index), At(vertices, index + 1), 0,
                   At(uvs, index), At(uvs, index + 1),
                   IF colors.isArray THEN At(colors.array, i) ELSE colors.scalar,
                   IF alphas.isArray THEN At(alphas.array, i) ELSE alphas.scalar) ]

\* addVertices, the flat loop: one Vertex per pair, i = 0, 2, 4, ... < length
FlatVertices(vertices, uvs, colors, alphas) ==
    [ n \in 1..((Len(vertices) + 1) \div 2) |->
        LET colorIndex == n - 1
            i == 2 * (n - 1)
        IN  Vertex(At(vertices, i), At(vertices, i + 1), 0,
                   At(uvs, i), At(uvs, i + 1),
                   IF colors.isArray THEN At(colors.array, colorIndex) ELSE colors.scalar,
                   IF alphas.isArray THEN At(alphas.array, colorIndex) ELSE alphas.scalar) ]

\* addVertices, the face loop over the whole vertex array verts:
\* i = 0, 3, 6, ... < verts.length, one Face of verts[i], verts[i+1], verts[i+2]
FacesOf(verts) ==
    [ n \in 1..((Len(verts) + 2) \div 3) |->
        LET i == 3 * (n - 1)
        IN  Face(At(verts, i), At(verts, i + 1), At(verts, i + 2)) ]

\* the Vertex objects one addVertices call creates
GeneratedVertices(vertices, uvs, indicies, colors, alphas) ==
    LET c == IF ~colors.isArray /\ colors.scalar = Undefined
             THEN Scalar(16777215) ELSE colors
        a == IF ~alphas.isArray /\ alphas.scalar = Undefined
             THEN Scalar(1) ELSE alphas
    IN  IF indicies.isArray /\ Len(indicies.array) > 0
        THEN IndexedVertices(vertices, uvs, indicies.array, c, a)
        ELSE FlatVertices(vertices, uvs, c, a)

\* addVertices without the length check
addVerticesUnchecked(m, h, vertices, uvs, indicies, colors, alphas) ==
    LET new == GeneratedVertices(vertices, uvs, indicies, colors, alphas)
        verts == m.vertices \o [n \in 1..Len(new) |-> Len(h.vertices) + n]
        faces == FacesOf(verts)
    IN  Result([m EXCEPT !.vertices = verts,
                         !.faces = @ \o [n \in 1..Len(faces) |-> Len(h.faces) + n]],
               [h EXCEPT !.vertices = @ \o new, !.faces = @ \o faces],
               "this")

\* Model.addVertices
addVertices(m, h, vertices, uvs, indicies, colors, alphas) ==
    IF Len(vertices) # Len(uvs)
    THEN Result(m, h, "Error")
    ELSE LET new == GeneratedVertices(vertices, uvs, indicies, colors, alphas)
             verts == m.vertices \o
                      [n \in 1..Len(new) |-> Len(h.vertices) + n]
             faces == FacesOf(verts)
         IN  Result([m EXCEPT !.vertices = verts,
                              !.faces = @ \o [n \in 1..Len(faces) |-> Len(h.faces) + n]],
                    [h EXCEPT !.vertices = @ \o new, !.faces = @ \o faces],
                    "this")

\* Model.destroy: anims.destroy() throws once anims is null
destroy(m, h) ==
    LET c == clearVertices(m, h)
    IN  IF m.anims = Null
        THEN Result(c.model, c.heap, "TypeError")
        ELSE Result([c.model EXCEPT !.mesh = Null, !.scene = Null, !.anims = Null,
                                    !.position = Null, !.rotation = Null,
                                    !.scale = Null, !.transformMatrix = Null],
                    [c.heap EXCEPT !.anims.destroyed = TRUE],
                    "undefined")

\* an x setter that rebuilds the matrices at once
setXEager(m, value) ==
    LET moved == [m EXCEPT !.position[1] = value]
    IN  [moved EXCEPT !.transformMatrix = TransformOf(moved),
                      !.normalMatrix = inverseTranspose(TransformOf(moved))]

\* the setters: this.position.x = value, ... (a TypeError once the vector is null)
setX(m, value) == [m EXCEPT !.position[1] = value]
setY(m, value) == [m EXCEPT !.position[2] = value]
setZ(m, value) == [m EXCEPT !.position[3] = value]
setRotationX(m, value) == [m EXCEPT !.rotation[1] = WrapAngle(value)]
setRotationY(m, value) == [m EXCEPT !.rotation[2] = WrapAngle(value)]
setRotationZ(m, value) == [m EXCEPT !.rotation[3] = WrapAngle(value)]
setScaleX(m, value) == [m EXCEPT !.scale[1] = value]
setScaleY(m, value) == [m EXCEPT !.scale[2] = value]
setScaleZ(m, value) == [m EXCEPT !.scale[3] = value]


----------------------------------------------------------------------------
(* The calls made on the Model.                                            *)

\* the arrays handed to addVertices: entry i of vertices is 10 + i, of uvs 50 + i
Coordinates(length) == [n \in 1..length |-> 9 + n]
UVs(length) == [n \in 1..length |-> 49 + n]

AddVerticesArgs(vertices, uvs, indicies, colors, alphas) ==
    [ vertices |-> Coordinates(vertices), uvs |-> UVs(uvs),
      indicies |-> indicies, colors |-> colors, alphas |-> alphas ]

AddVerticesInputs ==
    { AddVerticesArgs(n, n, Scalar(Undefined), Scalar(Undefined), Scalar(Undefined)) :
          n \in 0..MaxCoordsLength }
    \cup
    { AddVerticesArgs(8, 8, Array(ix), Scalar(Undefined), Scalar(Undefined)) :
          ix \in { <<>>, <<0, 2, 1>>, <<3, 0>> } }
    \cup
    { AddVerticesArgs(6, 6, Scalar(Undefined), Array(<<7, 8>>), Scalar(5)),
      AddVerticesArgs(6, 6, Array(<<2, 1, 0>>), Scalar(9), Array(<<3, 4, 5>>)),
      AddVerticesArgs(0, 2, Scalar(Undefined), Scalar(Undefined), Scalar(Undefined)),
      AddVerticesArgs(4, 2, Array(<<0, 1>>), Array(<<7>>), Scalar(5)),
      AddVerticesArgs(3, 4, Scalar(Undefined), Scalar(9), Array(<<3>>)) }

\* one call: the method's result becomes the state, within the bounds
ModelCall(name, arg, r) ==
    /\ calls < MaxCalls
    /\ Len(r.heap.vertices) <= MaxVertexObjects
    /\ Len(r.heap.faces) <= MaxFaceObjects
    /\ model' = r.model
    /\ heap' = r.heap
    /\ lastOp' = [on |-> "Model", name |-> name, arg |-> arg, ret |-> r.ret]
    /\ calls' = calls + 1
    /\ UNCHANGED camera

\* an assignment through a setter: a TypeError when the vector it writes is null
Assignment(vector, m) ==
    IF vector = Null THEN Result(model, heap, "TypeError")
    ELSE Result(m, heap, "undefined")

SetX == \E value \in PositionValues :
    ModelCall("x", <<value>>, Assignment(model.position, setX(model, value)))

SetY == \E value \in PositionValues :
    ModelCall("y", <<value>>, Assignment(model.position, setY(model, value)))

SetZ == \E value \in PositionValues :
    ModelCall("z", <<value>>, Assignment(model.position, setZ(model, value)))

SetRotationX == \E value \in RotationValues :
    ModelCall("rotationX", <<value>>, Assignment(model.rotation, setRotationX(model, value)))

SetRotationY == \E value \in RotationValues :
    ModelCall("rotationY", <<value>>, Assignment(model.rotation, setRotationY(model, value)))

SetRotationZ == \E value \in RotationValues :
    ModelCall("rotationZ", <<value>>, Assignment(model.rotation, setRotationZ(model, value)))

SetScaleX == \E value \in ScaleValues :
    ModelCall("scaleX", <<value>>, Assignment(model.scale, setScaleX(model, value)))

SetScaleY == \E value \in ScaleValues :
    ModelCall("scaleY", <<value>>, Assignment(model.scale, setScaleY(model, value)))

SetScaleZ == \E value \in ScaleValues :
    ModelCall("scaleZ", <<value>>, Assignment(model.scale, setScaleZ(model, value)))

\* isDirty reads position.x first: a TypeError once position is null
IsDirty ==
    ModelCall("isDirty", <<>>,
              IF model.position = Null THEN Result(model, heap, "TypeError")
              ELSE Result(isDirty(model).model, heap,
                          IF isDirty(model).ret THEN "true" ELSE "false"))

PreUpdate == ModelCall("preUpdate", <<>>, preUpdate(model, heap))

ClearVertices == ModelCall("clearVertices", <<>>, clearVertices(model, heap))

AddVertex ==
    ModelCall("addVertex", <<>>,
              addVertex(model, heap, 1, 2, 3, 4, 5, Undefined, Undefined))

\* addFace with three Vertex objects created earlier (in the Model or cleared from it)
AddFace == \E a \in 1..Len(heap.vertices) :
    /\ a + 2 <= Len(heap.vertices)
    /\ ModelCall("addFace", <<a, a + 1, a + 2>>, addFace(model, heap, a, a + 1, a + 2))

AddVertices == \E args \in AddVerticesInputs :
    ModelCall("addVertices", args,
              addVertices(model, heap, args.vertices, args.uvs,
                          args.indicies, args.colors, args.alphas))

Destroy == ModelCall("destroy", <<>>, destroy(model, heap))

NextModel ==
    \/ SetX \/ SetY \/ SetZ
    \/ SetRotationX \/ SetRotationY \/ SetRotationZ
    \/ SetScaleX \/ SetScaleY \/ SetScaleZ
    \/ IsDirty \/ PreUpdate
    \/ AddVertex \/ AddFace \/ AddVertices \/ ClearVertices
    \/ Destroy

\* lastOp after construction: no method has been called yet
NoCall == [on |-> "none", name |-> "new", arg |-> <<>>, ret |-> "undefined"]

----------------------------------------------------------------------------
(* The MeshCamera.  Rotation angles are counted in quarter turns (PI / 2), *)
(* where sine and cosine are integers.                                     *)

MODE_FREE == 0
MODE_ORBIT == 1

\* Math.sin and Math.cos of a number of quarter turns
Sin(a) == <<0, 1, 0, 0 - 1>>[(a % 4) + 1]
Cos(a) == <<1, 0, 0 - 1, 0>>[(a % 4) + 1]

\* Matrix4.fromRotationXYTranslation(rotation, position, translateFirst)
fromRotationXYTranslation(rotation, position, translateFirst) ==
    LET x == position[1]  y == position[2]  z == position[3]
        sx == Sin(rotation[1])  cx == Cos(rotation[1])
        sy == Sin(rotation[2])  cy == Cos(rotation[2])
        b21 == 0 - sx
        c01 == 0 - b21 * sy
        c02 == 0 - cx * sy
        c21 == b21 * cy
        c22 == cx * cy
        a30 == IF translateFirst THEN x ELSE cy * x + sy * z
        a31 == IF translateFirst THEN y ELSE c01 * x + cx * y + c21 * z
        a32 == IF translateFirst THEN z ELSE c02 * x + sx * y + c22 * z
    IN  << cy, c01, c02, 0,
           0, cx, sx, 0,
           sy, c21, c22, 0,
           a30, a31, a32, 1 >>

\* Vector4.transformMat4(mat)
transformMat4(v, m) ==
    << m[1] * v[1] + m[5] * v[2] + m[9] * v[3] + m[13] * v[4],
       m[2] * v[1] + m[6] * v[2] + m[10] * v[3] + m[14] * v[4],
       m[3] * v[1] + m[7] * v[2] + m[11] * v[3] + m[15] * v[4],
       m[4] * v[1] + m[8] * v[2] + m[12] * v[3] + m[16] * v[4] >>

\* Vector3.addScale(v, scale)
addScale(p, v, scale) ==
    << p[1] + v[1] * scale, p[2] + v[2] * scale, p[3] + v[3] * scale >>

\* DegToRad(degrees), as a multiple of PI: degrees / 180
DegToRad(degrees) == <<degrees, 180>>

RECURSIVE Gcd(_, _)
Gcd(a, b) == IF b = 0 THEN a ELSE Gcd(b, a % b)

\* width / height, in lowest terms
Ratio(width, height) ==
    << width \div Gcd(width, height), height \div Gcd(width, height) >>

\* new Matrix4() where the matrix is kept by the operands that produced it
IdentityMatrix == [kind |-> "identity"]

\* Matrix4.perspective(fovy, aspect, near, far): determined by its four arguments
perspective(fovy, aspect, near, far) ==
    [kind |-> "perspective", fovy |-> fovy, aspect |-> aspect,
     near |-> near, far |-> far]

\* a.multiplyToMat4(b, out): out = a x b
multiplyToMat4(a, b) == [kind |-> "product", left |-> a, right |-> b]

\* the MeshCamera constructor: x, y and z are not used
NewCamera(fov, x, y, z, near, far) ==
    [ dirty |-> TRUE,
      aspectRatio |-> <<1, 1>>,
      fov |-> fov,
      near |-> near,
      far |-> far,
      position |-> <<0, 0, 0>>,
      rotation |-> <<0, 0, 0>>,
      forward |-> <<0, 0, 0, 0>>,
      up |-> <<0, 0, 0, 0>>,
      right |-> <<0, 0, 0, 0>>,
      matrix |-> Identity,
      viewMatrix |-> <<Identity, 1>>,
      projectionMatrix |-> IdentityMatrix,
      viewProjectionMatrix |-> IdentityMatrix,
      mode |-> MODE_ORBIT ]

\* MeshCamera.updateDirection
updateDirection(c) ==
    [c EXCEPT !.forward = transformMat4(<<0, 0, 1, 0>>, c.matrix),
              !.up = transformMat4(<<0, 1, 0, 0>>, c.matrix),
              !.right = transformMat4(<<1, 0, 0, 0>>, c.matrix)]

\* MeshCamera.updateViewMatrix
updateViewMatrix(c) ==
    LET matView == fromRotationXYTranslation(c.rotation, c.position,
                                             c.mode = MODE_FREE)
    IN  [updateDirection([c EXCEPT !.matrix = matView])
            EXCEPT !.viewMatrix = invert(matView), !.dirty = TRUE]

\* MeshCamera.panX
panX(c, v) ==
    LET u == updateViewMatrix(c)
    IN  [u EXCEPT !.position = addScale(u.position, u.right, v)]

\* panY restricted to the world Y axis in both modes
panYOrbitOnly(c, v) ==
    [updateViewMatrix(c) EXCEPT !.position[2] = @ + updateViewMatrix(c).up[2] * v]

\* MeshCamera.panY
panY(c, v) ==
    LET u == updateViewMatrix(c)
    IN  IF u.mode = MODE_ORBIT
        THEN [u EXCEPT !.position[2] = @ + u.up[2] * v]
        ELSE [u EXCEPT !.position = << @[1] + u.up[1] * v,
                                       @[2] + u.up[2] * v,
                                       @[3] + u.up[3] * v >>]

\* panZ along the forward vector in both modes
panZForward(c, v) ==
    [updateViewMatrix(c) EXCEPT
        !.position = addScale(@, updateViewMatrix(c).forward, v)]

\* MeshCamera.panZ
panZ(c, v) ==
    LET u == updateViewMatrix(c)
    IN  IF u.mode = MODE_ORBIT
        THEN [u EXCEPT !.position[3] = @ + v]
        ELSE [u EXCEPT !.position = addScale(u.position, u.forward, v)]

\* update that marks the camera clean once the matrices are recomputed
updateClearsDirty(c, width, height) ==
    [c EXCEPT !.aspectRatio = Ratio(width, height),
              !.projectionMatrix =
                  perspective(DegToRad(c.fov), Ratio(width, height), c.near, c.far),
              !.viewProjectionMatrix =
                  multiplyToMat4(perspective(DegToRad(c.fov), Ratio(width, height),
                                             c.near, c.far),
                                 c.viewMatrix),
              !.dirty = FALSE]

\* update that refreshes the projection only, keeping the old product
updateProjectionOnly(c, width, height) ==
    [c EXCEPT !.aspectRatio = Ratio(width, height),
              !.projectionMatrix =
                  perspective(DegToRad(c.fov), Ratio(width, height), c.near, c.far)]

\* MeshCamera.update
update(c, width, height) ==
    LET aspectRatio == Ratio(width, height)
        projection == perspective(DegToRad(c.fov), aspectRatio, c.near, c.far)
    IN  [c EXCEPT !.aspectRatio = aspectRatio,
                  !.projectionMatrix = projection,
                  !.viewProjectionMatrix = multiplyToMat4(projection, c.viewMatrix)]

\* the fov setter accepting the two ends of the range
setFovInclusive(c, value) ==
    IF value >= 0 /\ value <= 180 THEN [c EXCEPT !.fov = value, !.dirty = TRUE] ELSE c

\* the fov, near and far setters
setFov(c, value) ==
    IF value > 0 /\ value < 180 THEN [c EXCEPT !.fov = value, !.dirty = TRUE] ELSE c

setNear(c, value) ==
    IF value > 0 THEN [c EXCEPT !.near = value, !.dirty = TRUE] ELSE c

setFar(c, value) ==
    IF value > 0 THEN [c EXCEPT !.far = value, !.dirty = TRUE] ELSE c

\* the x setter without the eager updateViewMatrix call
setCameraXLazy(c, value) == [c EXCEPT !.position[1] = value]

\* the x, y, z, rotationX, rotationY and rotationZ setters
setCameraX(c, value) == updateViewMatrix([c EXCEPT !.position[1] = value])
setCameraY(c, value) == updateViewMatrix([c EXCEPT !.position[2] = value])
setCameraZ(c, value) == updateViewMatrix([c EXCEPT !.position[3] = value])
setCameraRotationX(c, value) == updateViewMatrix([c EXCEPT !.rotation[1] = value])
setCameraRotationY(c, value) == updateViewMatrix([c EXCEPT !.rotation[2] = value])
setCameraRotationZ(c, value) == updateViewMatrix([c EXCEPT !.rotation[3] = value])

\* MeshCamera.destroy: nothing
destroyCamera(c) == c

----------------------------------------------------------------------------
(* The calls made on the MeshCamera.                                       *)

\* constructor arguments (fov, x, y, z, near, far)
CameraArgs == { <<45, 0, 0, 10, 1, 1000>>, <<180, 1, 2, 3, 0, 0>> }

FovValues == {0, 90, 180}
NearValues == {0, 2}
FarValues == {0 - 1, 50}
CameraPositionValues == {1}
CameraRotationValues == {1, 2}
PanValues == {0 - 1, 2}
Viewports == { <<800, 600>>, <<4, 4>> }

CameraCall(name, arg, c) ==
    /\ calls < MaxCameraCalls
    /\ camera' = c
    /\ lastOp' = [on |-> "MeshCamera", name |-> name, arg |-> arg, ret |-> "undefined"]
    /\ calls' = calls + 1
    /\ UNCHANGED <<model, heap>>

SetFov == \E value \in FovValues : CameraCall("fov", <<value>>, setFov(camera, value))

SetNear == \E value \in NearValues : CameraCall("near", <<value>>, setNear(camera, value))

SetFar == \E value \in FarValues : CameraCall("far", <<value>>, setFar(camera, value))

SetCameraX == \E value \in CameraPositionValues :
    CameraCall("x", <<value>>, setCameraX(camera, value))

SetCameraY == \E value \in CameraPositionValues :
    CameraCall("y", <<value>>, setCameraY(camera, value))

SetCameraZ == \E value \in CameraPositionValues :
    CameraCall("z", <<value>>, setCameraZ(camera, value))

SetCameraRotationX == \E value \in CameraRotationValues :
    CameraCall("rotationX", <<value>>, setCameraRotationX(camera, value))

SetCameraRotationY == \E value \in CameraRotationValues :
    CameraCall("rotationY", <<value>>, setCameraRotationY(camera, value))

SetCameraRotationZ == \E value \in CameraRotationValues :
    CameraCall("rotationZ", <<value>>, setCameraRotationZ(camera, value))

\* camera.mode = MeshCamera.MODE_FREE / MODE_ORBIT: a plain field, written directly
SetMode == \E value \in {MODE_FREE, MODE_ORBIT} :
    CameraCall("mode", <<value>>, [camera EXCEPT !.mode = value])

PanX == \E v \in PanValues : CameraCall("panX", <<v>>, panX(camera, v))

PanY == \E v \in PanValues : CameraCall("panY", <<v>>, panY(camera, v))

PanZ == \E v \in PanValues : CameraCall("panZ", <<v>>, panZ(camera, v))

UpdateViewMatrix == CameraCall("updateViewMatrix", <<>>, updateViewMatrix(camera))

Update == \E viewport \in Viewports :
    CameraCall("update", viewport, update(camera, viewport[1], viewport[2]))

DestroyCamera == CameraCall("destroy", <<>>, destroyCamera(camera))

NextCamera ==
    \/ SetFov \/ SetNear \/ SetFar
    \/ SetCameraX \/ SetCameraY \/ SetCameraZ
    \/ SetCameraRotationX \/ SetCameraRotationY \/ SetCameraRotationZ
    \/ SetMode
    \/ PanX \/ PanY \/ PanZ
    \/ UpdateViewMatrix \/ Update
    \/ DestroyCamera

----------------------------------------------------------------------------
(* Specifications: the Model and the MeshCamera are independent objects,   *)
(* each is explored with the other one left as constructed.                *)

InitModel ==
    /\ \E args \in ModelArgs : model = NewModel(args[1], args[2], args[3])
    /\ heap = NewHeap
    /\ camera = NewCamera(45, 0, 0, 10, 1, 1000)
    /\ lastOp = NoCall
    /\ calls = 0

SpecModel == InitModel /\ [][NextModel]_vars

InitCamera ==
    /\ model = NewModel(Undefined, Undefined, Undefined)
    /\ heap = NewHeap
    /\ \E args \in CameraArgs :
           /\ camera = NewCamera(args[1], args[2], args[3], args[4], args[5], args[6])
           /\ lastOp = [NoCall EXCEPT !.on = "MeshCamera", !.arg = args]
    /\ calls = 0

SpecCamera == InitCamera /\ [][NextCamera]_vars


----------------------------------------------------------------------------
(* Properties of the Model, checked under SpecModel.                       *)

\* a step that is a call of the Model method `name`
ModelStep(name) ==
    lastOp'.on = "Model" /\ lastOp'.name = name /\ calls' = calls + 1

\* C1: isDirty is check-and-set.  A call returns true exactly when one of
\* the 11 tracked values differs from the snapshot, the snapshot is only
\* ever written by a dirty check (isDirty itself or the one inside
\* preUpdate), every call stores the current values as the new snapshot
\* without changing them, and an isDirty call that directly follows a dirty
\* check returns false.
C1_IsDirtyCheckAndSet ==
    [][ /\ (ModelStep("isDirty") /\ model.position # Null) =>
              /\ lastOp'.ret =
                   (IF \E i \in 1..11 : model.dirtyCache[i] # TrackedValues(model)[i]
                    THEN "true" ELSE "false")
              /\ TrackedValues(model') = TrackedValues(model)
              /\ model'.dirtyCache = TrackedValues(model)
              /\ (lastOp.name \in {"isDirty", "preUpdate"} => lastOp'.ret = "false")
        /\ (model'.dirtyCache # model.dirtyCache) =>
              lastOp'.name \in {"isDirty", "preUpdate"}
      ]_vars

\* C1 witness: x was assigned, isDirty returned true and stored the
\* snapshot, and the isDirty call right after it returned false
C1_Witness ==
    /\ calls = 3
    /\ lastOp.name = "isDirty" /\ lastOp.ret = "false"
    /\ model.position[1] = 4 /\ model.dirtyCache[1] = 4
    /\ model.transformMatrix = Identity
    /\ heap.anims.ticks = 0

\* C2: preUpdate advances the animation state on every call, and rewrites
\* transformMatrix and normalMatrix exactly when its dirty check is true:
\* then they become the matrix of the current rotation, position and scale
\* and its inverse-transpose, otherwise both are left as they were.
C2_PreUpdateRebuildsIffDirty ==
    [][ (ModelStep("preUpdate") /\ model.anims # Null) =>
          /\ heap'.anims.ticks = heap.anims.ticks + 1
          /\ IF model.dirtyCache # TrackedValues(model)
             THEN /\ model'.transformMatrix =
                        scaleMatrix(fromRotationTranslation(model.rotation,
                                                            model.position),
                                    model.scale)
                  /\ model'.normalMatrix =
                        inverseTranspose(model'.transformMatrix)
             ELSE /\ model'.transformMatrix = model.transformMatrix
                  /\ model'.normalMatrix = model.normalMatrix
      ]_vars

\* C2 witness: two preUpdate calls on a Model constructed at (1, 2, 3): the
\* first found the Model dirty and rebuilt the matrices, the second found
\* nothing changed and left them alone; the animation advanced twice
C2_Witness ==
    /\ calls = 2
    /\ lastOp.name = "preUpdate"
    /\ heap.anims.ticks = 2
    /\ model.position = <<1, 2, 3>>
    /\ model.transformMatrix[13] = 1
    /\ model.normalMatrix # <<Identity, 1>>

\* C3 (the claim as stated): addVertices without indices on an empty Model,
\* with coordinate and uv arrays of length 2n, leaves n vertices and
\* floor(n / 3) faces, face k holding vertices 3k, 3k + 1, 3k + 2.
C3_FloorFaces ==
    [][ ( /\ ModelStep("addVertices")
          /\ model.vertices = <<>> /\ model.faces = <<>>
          /\ ~lastOp'.arg.indicies.isArray
          /\ Len(lastOp'.arg.vertices) = Len(lastOp'.arg.uvs)
          /\ Len(lastOp'.arg.vertices) % 2 = 0 ) =>
          LET n == Len(lastOp'.arg.vertices) \div 2
          IN  /\ getVertexCount(model') = n
              /\ getFaceCount(model') = n \div 3
              /\ \A k \in 0..(getFaceCount(model') - 1) :
                    heap'.faces[model'.faces[k + 1]] =
                        Face(model'.vertices[3 * k + 1],
                             model'.vertices[3 * k + 2],
                             model'.vertices[3 * k + 3])
      ]_vars

\* C4: addVertices with arrays of different lengths throws the validation
\* error and leaves the Model and every object it owns as they were.
C4_MismatchThrowsNoMutation ==
    [][ ( /\ ModelStep("addVertices")
          /\ Len(lastOp'.arg.vertices) # Len(lastOp'.arg.uvs) ) =>
          /\ lastOp'.ret = "Error"
          /\ model' = model
          /\ heap' = heap
      ]_vars

\* C4 witness: a failed call with indices and per-vertex colors on a Model
\* that already had vertices and faces
C4_Witness ==
    /\ lastOp.name = "addVertices" /\ lastOp.ret = "Error"
    /\ lastOp.arg.indicies.isArray /\ lastOp.arg.colors.isArray
    /\ getVertexCount(model) > 0 /\ getFaceCount(model) > 0

\* C5: clearVertices leaves no vertex and no face in the Model, destroys
\* every Face that was in the face list, and leaves position, rotation,
\* scale and the dirty snapshot as they were.
C5_ClearVertices ==
    [][ ModelStep("clearVertices") =>
          /\ getVertexCount(model') = 0
          /\ getFaceCount(model') = 0
          /\ \A k \in 1..Len(model.faces) :
                heap'.faces[model.faces[k]] = DestroyedFace
          /\ model'.position = model.position
          /\ model'.rotation = model.rotation
          /\ model'.scale = model.scale
          /\ model'.dirtyCache = model.dirtyCache
      ]_vars

\* C5 witness: a Model that held vertices and faces and a changed position
\* has just been cleared
C5_Witness ==
    /\ lastOp.name = "clearVertices"
    /\ getVertexCount(model) = 0 /\ getFaceCount(model) = 0
    /\ \E f \in 1..Len(heap.faces) : heap.faces[f] = DestroyedFace
    /\ Len(heap.vertices) > 0
    /\ model.position # Null /\ model.position[1] = 4

----------------------------------------------------------------------------
(* Properties of the MeshCamera, checked under SpecCamera.                 *)

\* a step that is a call of the MeshCamera method or setter `name`
CameraStep(name) ==
    lastOp'.on = "MeshCamera" /\ lastOp'.name = name /\ calls' = calls + 1

\* C6: an fov outside (0, 180), and a near or far that is not positive, is
\* rejected and leaves every camera field unchanged; a value inside the
\* range is stored and the dirty flag set, and nothing else changes.
C6_RangeCheckedSetters ==
    [][ /\ CameraStep("fov") =>
              camera' = IF lastOp'.arg[1] > 0 /\ lastOp'.arg[1] < 180
                        THEN [camera EXCEPT !.fov = lastOp'.arg[1], !.dirty = TRUE]
                        ELSE camera
        /\ CameraStep("near") =>
              camera' = IF lastOp'.arg[1] > 0
                        THEN [camera EXCEPT !.near = lastOp'.arg[1], !.dirty = TRUE]
                        ELSE camera
        /\ CameraStep("far") =>
              camera' = IF lastOp'.arg[1] > 0
                        THEN [camera EXCEPT !.far = lastOp'.arg[1], !.dirty = TRUE]
                        ELSE camera
      ]_vars

\* C6 witness: fov 90 was stored, and the assignment of 180 after it was
\* rejected
C6_Witness ==
    /\ lastOp.on = "MeshCamera" /\ lastOp.name = "fov" /\ lastOp.arg = <<180>>
    /\ camera.fov = 90

\* C7 (the claim as stated): in every reachable state fov is in (0, 180),
\* near > 0 and far > 0.
C7_RangeInvariant ==
    /\ camera.fov > 0 /\ camera.fov < 180
    /\ camera.near > 0
    /\ camera.far > 0

\* C8: in ORBIT mode panY(v) changes only position.y, by up.y * v, and
\* panZ(v) changes only position.z, by exactly v, whatever the rotation.
C8_OrbitPan ==
    [][ /\ (CameraStep("panY") /\ camera.mode = MODE_ORBIT) =>
              /\ camera'.position[1] = camera.position[1]
              /\ camera'.position[3] = camera.position[3]
              /\ camera'.position[2] =
                    camera.position[2] + camera'.up[2] * lastOp'.arg[1]
        /\ (CameraStep("panZ") /\ camera.mode = MODE_ORBIT) =>
              /\ camera'.position[1] = camera.position[1]
              /\ camera'.position[2] = camera.position[2]
              /\ camera'.position[3] = camera.position[3] + lastOp'.arg[1]
      ]_vars

\* C8 witness: panZ in ORBIT mode on a camera turned a quarter around Y,
\* whose forward vector is then the world X axis
C8_Witness ==
    /\ lastOp.on = "MeshCamera" /\ lastOp.name = "panZ"
    /\ camera.mode = MODE_ORBIT
    /\ camera.rotation[2] = 1
    /\ camera.forward = <<1, 0, 0, 0>>
    /\ camera.position[3] = lastOp.arg[1]

\* C9: in FREE mode panZ(v) adds v times the forward vector, and panY(v)
\* adds v times the up vector, to all three position components, the
\* vectors being those of the rotation and position before the move.
C9_FreePan ==
    [][ /\ (CameraStep("panZ") /\ camera.mode = MODE_FREE) =>
              LET forward == transformMat4(<<0, 0, 1, 0>>,
                                 fromRotationXYTranslation(camera.rotation,
                                                           camera.position, TRUE))
              IN  /\ camera'.forward = forward
                  /\ \A i \in 1..3 :
                        camera'.position[i] =
                            camera.position[i] + lastOp'.arg[1] * forward[i]
        /\ (CameraStep("panY") /\ camera.mode = MODE_FREE) =>
              LET up == transformMat4(<<0, 1, 0, 0>>,
                            fromRotationXYTranslation(camera.rotation,
                                                      camera.position, TRUE))
              IN  /\ camera'.up = up
                  /\ \A i \in 1..3 :
                        camera'.position[i] =
                            camera.position[i] + lastOp'.arg[1] * up[i]
      ]_vars

\* C9 witness: panY in FREE mode on a camera turned a quarter around X moved
\* it along the world Z axis
C9_Witness ==
    /\ lastOp.on = "MeshCamera" /\ lastOp.name = "panY"
    /\ camera.mode = MODE_FREE
    /\ camera.rotation[1] = 1
    /\ camera.up = <<0, 0, 1, 0>>
    /\ camera.position = <<0, 0, lastOp.arg[1]>>

\* the field of the camera an x/y/z/rotationX/Y/Z setter writes
WrittenBy(name, c) ==
    CASE name = "x" -> c.position[1]
      [] name = "y" -> c.position[2]
      [] name = "z" -> c.position[3]
      [] name = "rotationX" -> c.rotation[1]
      [] name = "rotationY" -> c.rotation[2]
      [] name = "rotationZ" -> c.rotation[3]

\* C10: an assignment to x, y, z, rotationX, rotationY or rotationZ writes
\* the field and, in the same call, rebuilds the local matrix from the
\* rotation and position in the composition of the current mode, the three
\* basis vectors from it, viewMatrix as its inverse, and sets dirty.
C10_EagerViewMatrix ==
    [][ \A name \in {"x", "y", "z", "rotationX", "rotationY", "rotationZ"} :
          CameraStep(name) =>
            /\ WrittenBy(name, camera') = lastOp'.arg[1]
            /\ camera'.mode = camera.mode
            /\ camera'.matrix =
                  fromRotationXYTranslation(camera'.rotation, camera'.position,
                                            camera.mode = MODE_FREE)
            /\ camera'.forward = transformMat4(<<0, 0, 1, 0>>, camera'.matrix)
            /\ camera'.up = transformMat4(<<0, 1, 0, 0>>, camera'.matrix)
            /\ camera'.right = transformMat4(<<1, 0, 0, 0>>, camera'.matrix)
            /\ camera'.viewMatrix = invert(camera'.matrix)
            /\ camera'.dirty = TRUE
      ]_vars

\* C10 witness: rotationY assigned in FREE mode on a camera moved off the
\* origin: the local matrix keeps the raw position, where ORBIT rotates it
C10_Witness ==
    /\ lastOp.on = "MeshCamera" /\ lastOp.name = "rotationY"
    /\ camera.mode = MODE_FREE
    /\ camera.position[1] = 1
    /\ camera.rotation[2] = 1
    /\ camera.matrix[13] = 1
    /\ camera.viewMatrix # <<Identity, 1>>


\* C11: update(width, height) sets aspectRatio to width / height, rebuilds
\* the projection matrix from (fov in radians, aspectRatio, near, far) and
\* sets viewProjectionMatrix to projection x view on every call, and leaves
\* every other field of the camera (position, rotation, mode, matrix,
\* viewMatrix, forward/up/right, fov/near/far, dirty) as it was.
C11_UpdateUnconditional ==
    [][ CameraStep("update") =>
          LET aspect == Ratio(lastOp'.arg[1], lastOp'.arg[2])
              projection == perspective(DegToRad(camera.fov), aspect,
                                        camera.near, camera.far)
          IN  camera' =
                [camera EXCEPT
                    !.aspectRatio = aspect,
                    !.projectionMatrix = projection,
                    !.viewProjectionMatrix =
                        multiplyToMat4(projection, camera.viewMatrix)]
      ]_vars

\* C11 witness: an update to an 800 x 600 viewport after fov was set to 90
\* rebuilt the projection from the new fov and took the product again
C11_Witness ==
    /\ calls = 3
    /\ lastOp.on = "MeshCamera" /\ lastOp.name = "update"
    /\ lastOp.arg = <<800, 600>>
    /\ camera.fov = 90
    /\ camera.aspectRatio = <<4, 3>>
    /\ camera.projectionMatrix.kind = "perspective"
    /\ camera.projectionMatrix.fovy = <<90, 180>>
    /\ camera.viewProjectionMatrix.kind = "product"
    /\ camera.viewProjectionMatrix.left = camera.projectionMatrix


\* the Model driven by addVertices and clearVertices only
NextGeometry == AddVertices \/ ClearVertices

SpecGeometry == InitModel /\ [][NextGeometry]_vars

\* the Face at place k of the Model's face list
FaceAt(k) == heap.faces[model.faces[k]]

\* v is a Vertex of the Model's vertex list
InVertexList(v) == \E n \in 1..Len(model.vertices) : model.vertices[n] = v

\* C12: in every state reached by addVertices and clearVertices calls, every
\* Face of the face list references three vertices that are present in the
\* Model's vertex list (no Face has a missing vertex).
C12_FacesAreTriples ==
    \A k \in 1..Len(model.faces) :
        /\ InVertexList(FaceAt(k).vertex1)
        /\ InVertexList(FaceAt(k).vertex2)
        /\ InVertexList(FaceAt(k).vertex3)


\* C13: after destroy the vertex and face lists are empty, the animation
\* sub-state is destroyed and released, and the Model holds no reference to
\* its position, rotation, scale, transform matrix or normal matrix.
C13_DestroyReleasesAll ==
    (lastOp.on = "Model" /\ lastOp.name = "destroy" /\ lastOp.ret = "undefined")
    => /\ model.vertices = <<>>
       /\ model.faces = <<>>
       /\ heap.anims.destroyed
       /\ model.anims = Null
       /\ model.position = Null
       /\ model.rotation = Null
       /\ model.scale = Null
       /\ model.transformMatrix = Null
       /\ model.normalMatrix = Null


\* C14: on a newly constructed Model, with no change made since construction,
\* the first isDirty call returns false (the snapshot the constructor writes
\* equals the constructed values of the 11 tracked fields).
C14_FreshModelIsClean ==
    (calls = 1 /\ lastOp.on = "Model" /\ lastOp.name = "isDirty")
    => lastOp.ret = "false"


\* the methods the Model's laziness is about: the nine assignments, the
\* geometry operations and the dirty check
LazyOperations ==
    { "x", "y", "z", "rotationX", "rotationY", "rotationZ",
      "scaleX", "scaleY", "scaleZ",
      "addVertex", "addFace", "addVertices", "clearVertices", "isDirty" }

\* C15: assigning x, y, z, rotationX/Y/Z, scaleX/Y/Z and calling addVertex,
\* addFace, addVertices, clearVertices or isDirty never modifies
\* transformMatrix or normalMatrix; of the operations before destroy only
\* preUpdate writes them.
C15_LazyMatrices ==
    [][ /\ (\E name \in LazyOperations : ModelStep(name))
           => /\ model'.transformMatrix = model.transformMatrix
              /\ model'.normalMatrix = model.normalMatrix
        /\ (\/ model'.transformMatrix # model.transformMatrix
            \/ model'.normalMatrix # model.normalMatrix)
           => (ModelStep("preUpdate") \/ ModelStep("destroy"))
      ]_vars

\* C15 witness: x was assigned after a preUpdate, and the transform matrix
\* still carries the translation of before the assignment
C15_Witness ==
    /\ lastOp.on = "Model" /\ lastOp.name = "x" /\ lastOp.ret = "undefined"
    /\ heap.anims.ticks = 1
    /\ model.position[1] = 4
    /\ model.transformMatrix = Identity
    /\ model.normalMatrix = <<Identity, 1>>
    /\ TransformOf(model) # model.transformMatrix


\* C16: after every preUpdate call, whatever assignments, geometry
\* operations, direct isDirty calls and earlier preUpdate calls came before,
\* transformMatrix is the matrix built from the current rotation, position
\* and scale, and normalMatrix is its inverse-transpose.
C16_FreshAfterPreUpdate ==
    (lastOp.on = "Model" /\ lastOp.name = "preUpdate" /\ lastOp.ret = "undefined")
    => /\ model.transformMatrix = TransformOf(model)
       /\ model.normalMatrix = inverseTranspose(TransformOf(model))


\* the MeshCamera driven by its position and rotation assignments, its pans
\* and update only
NextCameraMotion ==
    \/ SetCameraX \/ SetCameraY \/ SetCameraZ
    \/ SetCameraRotationX \/ SetCameraRotationY \/ SetCameraRotationZ
    \/ PanX \/ PanY \/ PanZ
    \/ Update

SpecCameraMotion == InitCamera /\ [][NextCameraMotion]_vars

\* the inverse of the local transform of the camera's current position,
\* rotation and mode
CurrentView(c) ==
    invert(fromRotationXYTranslation(c.rotation, c.position, c.mode = MODE_FREE))

\* C17: after update, following any sequence of x/y/z/rotation assignments
\* and panX/panY/panZ calls, viewProjectionMatrix is projection x the inverse
\* of the local transform built from the camera's current position, rotation
\* and mode (no pan leaves the view used by update behind the position).
C17_UpdateUsesCurrentView ==
    (lastOp.on = "MeshCamera" /\ lastOp.name = "update")
    => camera.viewProjectionMatrix =
           multiplyToMat4(camera.projectionMatrix, CurrentView(camera))


\* the addVertices inputs that pass the length check and generate a multiple
\* of 3 vertices
TriangleInputs ==
    { args \in AddVerticesInputs :
        /\ Len(args.vertices) = Len(args.uvs)
        /\ Len(GeneratedVertices(args.vertices, args.uvs, args.indicies,
                                 args.colors, args.alphas)) % 3 = 0 }

\* addVertices called with whole triangles
AddTriangles == \E args \in TriangleInputs :
    ModelCall("addVertices", args,
              addVertices(model, heap, args.vertices, args.uvs,
                          args.indicies, args.colors, args.alphas))

\* the Model, empty at first, driven by such addVertices calls only
SpecTriangles == InitModel /\ [][AddTriangles]_vars

\* the number of Faces of the face list that reference Vertex v
FacesReferencing(v) ==
    Cardinality({ k \in 1..Len(model.faces) :
                    \/ FaceAt(k).vertex1 = v
                    \/ FaceAt(k).vertex2 = v
                    \/ FaceAt(k).vertex3 = v })

\* C18: after any sequence of addVertices calls, each generating a multiple
\* of 3 vertices, on an initially empty Model, getFaceCount() is
\* getVertexCount() / 3 and no vertex is referenced by more than one Face.
C18_OneFacePerTriple ==
    /\ 3 * getFaceCount(model) = getVertexCount(model)
    /\ \A n \in 1..Len(model.vertices) : FacesReferencing(model.vertices[n]) <= 1


\* C19: the MeshCamera's dirty flag is true in every reachable state: it is
\* true after construction and no operation of the camera sets it to false.
C19_AlwaysDirty == camera.dirty = TRUE

\* C19 witness: the camera was moved, its matrices were recomputed by
\* update, and it was destroyed; the flag is still set
C19_Witness ==
    /\ calls = 3
    /\ lastOp.on = "MeshCamera" /\ lastOp.name = "destroy"
    /\ camera.position # <<0, 0, 0>>
    /\ camera.viewProjectionMatrix.kind = "product"
    /\ camera.dirty


\* C20: a MeshCamera constructed with (fov, x, y, z, near, far) has position
\* (x, y, z) right after construction, and fov, near and far equal to the
\* arguments.
C20_ConstructedAsGiven ==
    (lastOp.on = "MeshCamera" /\ lastOp.name = "new")
    => /\ camera.position = <<lastOp.arg[2], lastOp.arg[3], lastOp.arg[4]>>
       /\ camera.fov = lastOp.arg[1]
       /\ camera.near = lastOp.arg[5]
       /\ camera.far = lastOp.arg[6]


====
